---- MODULE Spec2Model ----
(***************************************************************************)
(* Model of pkg/applyconfiguration/openapi.go: the pipeline that turns the *)
(* parser's per-type schemas (p.Schemata) into the definitions of a        *)
(* swagger 2.0 document.                                                    *)
(*                                                                         *)
(* Strings the code takes apart (package paths, references, definition     *)
(* keys) are sequences of tokens: "k8s.io/a" is <<"k8s", ".", "io", "/",  *)
(* "a">>.  A schema (JSONSchemaProps, later map[string]any) is a function  *)
(* from field names to values; an absent field is an absent key.           *)
(***************************************************************************)
EXTENDS Integers, Sequences, FiniteSets, TLC

VARIABLES
    pc,           \* position of the run
    Schemata,     \* p.Schemata: TypeIdent -> schema (read-only once built)
    crdTypeSet,   \* names of the root CRD types of the root package
    pending,      \* idents the loop over p.Schemata has not reached yet
    definitions,  \* the definitions map of buildOpenAPISchema
    toVisit,      \* keys the loop of resolveRefDefinitions has not reached yet
    assembled,    \* history: definitions as they were when the assembly loop ended
    rawDefs,      \* history: the assembled definitions had line 118 not run
    visitLog,     \* history: keys in the order resolveRefDefinitions visited them
    writers,      \* history: key -> idents whose definition was stored under it
    start,        \* resolver machine: the ident whose schema is being resolved
    stack,        \* resolver machine: call stack of resolveAllOfRefs
    result,       \* resolver machine: what resolveAllOfRefs makes of the schema of start
    cyclic,       \* history: a cycle of embeddings is reachable from start
    sIn,          \* sanitizer machine: the definition handed to the sanitizer
    sOut,         \* sanitizer machine: after one call
    sOut2         \* sanitizer machine: after a second call

vars == <<pc, Schemata, crdTypeSet, pending, definitions, toVisit, assembled,
          rawDefs, visitLog, writers, start, stack, result, cyclic, sIn, sOut, sOut2>>

\* Depth of nested resolveAllOfRefs calls the goroutine stack can hold.
MaxStack == 6

----------------------------------------------------------------------------
\* Token strings

RECURSIVE SplitOn(_, _)
\* strings.Split(s, sep)
SplitOn(s, sep) ==
    IF \A i \in 1..Len(s) : s[i] # sep
    THEN <<s>>
    ELSE LET i == CHOOSE n \in 1..Len(s) :
                      s[n] = sep /\ \A j \in 1..(n - 1) : s[j] # sep
         IN  <<SubSeq(s, 1, i - 1)>> \o SplitOn(SubSeq(s, i + 1, Len(s)), sep)

RECURSIVE JoinWith(_, _)
\* strings.Join(parts, sep)
JoinWith(parts, sep) ==
    IF Len(parts) = 0 THEN <<>>
    ELSE IF Len(parts) = 1 THEN parts[1]
    ELSE parts[1] \o <<sep>> \o JoinWith(Tail(parts), sep)

RECURSIVE Reverse(_)
Reverse(s) == IF Len(s) = 0 THEN <<>> ELSE Append(Reverse(Tail(s)), Head(s))

Contains(s, tok) == \E i \in 1..Len(s) : s[i] = tok

\* strings.Replace(s, old, new, -1) for one-token old and new
RECURSIVE ReplaceTok(_, _, _)
ReplaceTok(s, old, new) ==
    IF Len(s) = 0 THEN <<>>
    ELSE <<IF Head(s) = old THEN new ELSE Head(s)>> \o ReplaceTok(Tail(s), old, new)

\* util.ToRESTFriendlyName of kube-openapi: the part before the first "/" has
\* its dot-separated labels reversed, then every "/" becomes ".".
ToRESTFriendlyName(name) ==
    LET nameParts == SplitOn(name, "/")
        first     == nameParts[1]
        reversed  == IF Contains(first, ".")
                     THEN JoinWith(Reverse(SplitOn(first, ".")), ".")
                     ELSE first
    IN  JoinWith(<<reversed>> \o Tail(nameParts), ".")

\* A nil *loader.Package is the empty path.  A TypeIdent is
\* [pkg |-> package path, name |-> type name], both token strings.
NilPkg == <<>>

\* key := util.ToRESTFriendlyName(pkgPath + "." + ident.Name)
DefinitionKey(ident) == ToRESTFriendlyName(ident.pkg \o <<".">> \o ident.name)

refPrefix == "#/definitions/"

\* crd.TypeRefLink: the internal reference the schema generator writes.
TypeRefLink(pkgPath, typeName) ==
    <<refPrefix>> \o (IF pkgPath # <<>>
                      THEN ReplaceTok(pkgPath, "/", "~1") \o <<"~0">> \o typeName
                      ELSE typeName)

\* F(x), with x evaluated once however often F uses it.
Let(F(_), x) == CHOOSE y \in {F(v) : v \in {x}} : TRUE

\* The index of the first tok of s, 0 when there is none.
IndexOf(s, tok) ==
    IF Contains(s, tok)
    THEN CHOOSE n \in 1..Len(s) : s[n] = tok /\ \A j \in 1..(n - 1) : s[j] # tok
    ELSE 0

\* crd.RefParts: the type name and package path of an internal reference.
RefParts(ref) ==
    IF Len(ref) = 0 \/ ref[1] # refPrefix
    THEN [err |-> TRUE, typeName |-> <<>>, pkgPath |-> <<>>]
    ELSE LET Parts(body) ==
                 LET Cut(n) ==
                         IF n = 0
                         THEN [err |-> FALSE, typeName |-> body, pkgPath |-> <<>>]
                         ELSE [err |-> FALSE,
                               typeName |-> SubSeq(body, n + 1, Len(body)),
                               pkgPath  |-> SubSeq(body, 1, n - 1)]
                 IN  Let(Cut, IndexOf(body, "~"))
         IN  Let(Parts, ReplaceTok(ReplaceTok(Tail(ref), "~1", "/"), "~0", "~"))

----------------------------------------------------------------------------
\* Schemas

Has(f, k) == k \in DOMAIN f

\* f with every value computed: a map held in memory, not a rule for one.
Strict(f) == f @@ <<>>

Without(f, ks) ==
    LET Rest(g) == Strict([k \in (DOMAIN g) \ ks |-> g[k]])
    IN  Let(Rest, f)

With(f, k, v) == (k :> v) @@ f

EmptySchema == [k \in {} |-> TRUE]

\* entry.Ref != nil && len(*entry.Ref) > 0
HasRef(f) == Has(f, "$ref") /\ Len(f["$ref"]) > 0

\* The order in which the keys of a properties map are walked.  Go leaves the
\* order of a map range unspecified; it decides only which of several errors
\* is met first.
RECURSIVE KeyOrder(_)
KeyOrder(ks) ==
    IF ks = {} THEN <<>>
    ELSE LET k == CHOOSE x \in ks : TRUE IN <<k>> \o KeyOrder(ks \ {k})

Ok(schema) == [err |-> "none", schema |-> schema]

Fail(e) == [err |-> e, schema |-> EmptySchema]

\* pkgByPath: the packages of the idents of p.Schemata, by path.
PkgKnown(U, path) == path # NilPkg /\ \E i \in DOMAIN U : i.pkg = path

\* Lines 186-201: the ident an allOf entry's reference names, or the error.
LookupEntry(U, entry, contextPkg) ==
    LET Found(parts) ==
            IF parts.err THEN [err |-> "error", ident |-> [pkg |-> NilPkg, name |-> <<>>]]
            ELSE LET pkg == IF parts.pkgPath # <<>>
                            THEN (IF PkgKnown(U, parts.pkgPath) THEN parts.pkgPath ELSE NilPkg)
                            ELSE contextPkg
                     refIdent == [pkg |-> pkg, name |-> parts.typeName]
                 IN  IF pkg = NilPkg \/ refIdent \notin DOMAIN U
                     THEN [err |-> "error", ident |-> refIdent]
                     ELSE [err |-> "none", ident |-> refIdent]
    IN  Let(Found, RefParts(entry["$ref"]))

\* if err != nil { return err }, over the results rs of the calls of a loop:
\* some call fails, and the error of the first that does.
AnyError(rs) == \E n \in 1..Len(rs) : rs[n].err # "none"

FirstError(rs) ==
    rs[CHOOSE n \in 1..Len(rs) :
           rs[n].err # "none" /\ \A m \in 1..(n - 1) : rs[m].err = "none"].err

RECURSIVE resolveAllOfRefs(_, _, _, _)

\* Lines 184-213, one entry of allOf: the schema it is replaced with.
ResolveEntry(U, entry, contextPkg, fuel) ==
    LET Target(found) ==
            IF found.err # "none" THEN Fail("error")
            ELSE resolveAllOfRefs(U, U[found.ident], found.ident.pkg, fuel - 1)
    IN  IF HasRef(entry)
        THEN Let(Target, LookupEntry(U, entry, contextPkg))
        ELSE resolveAllOfRefs(U, entry, contextPkg, fuel - 1)

\* The loop of lines 183-214: the resolved entries, in order.
ResolveEntries(U, allOf, contextPkg, fuel) ==
    LET Collect(rs) ==
            IF AnyError(rs) THEN Fail(FirstError(rs))
            ELSE Ok(Strict([i \in 1..Len(rs) |-> rs[i].schema]))
    IN  Let(Collect,
            Strict([i \in 1..Len(allOf) |-> ResolveEntry(U, allOf[i], contextPkg, fuel)]))

\* The loop of lines 217-222, the keys walked in the order KeyOrder.
ResolveProps(U, props, contextPkg, fuel) ==
    LET Collect(rs) ==
            IF AnyError(rs[2]) THEN Fail(FirstError(rs[2]))
            ELSE Ok(Strict([k \in DOMAIN props |->
                               rs[2][CHOOSE i \in 1..Len(rs[1]) : rs[1][i] = k].schema]))
        InOrder(ks) ==
            <<ks, Strict([i \in 1..Len(ks) |->
                             resolveAllOfRefs(U, props[ks[i]], contextPkg, fuel - 1)])>>
    IN  Let(Collect, Let(InOrder, KeyOrder(DOMAIN props)))

\* resolveAllOfRefs, with fuel the depth of calls the stack still holds:
\* [err |-> "none", schema |-> the resolved schema], [err |-> "error"] when
\* the function returns an error, [err |-> "exhausted"] when the recursion
\* outgrows the stack.
resolveAllOfRefs(U, schema, contextPkg, fuel) ==
    IF fuel = 0 THEN Fail("exhausted")
    ELSE
    LET Put(rs) ==
            IF AnyError(rs) THEN Fail(FirstError(rs))
            ELSE Ok(Strict([k \in DOMAIN schema |->
                               IF k = "allOf" THEN rs[1].schema
                               ELSE IF k = "properties" THEN rs[2].schema
                               ELSE IF k = "items" THEN rs[3].schema
                               ELSE IF k = "additionalProperties" THEN rs[4].schema
                               ELSE schema[k]]))
    IN  Let(Put,
            << IF Has(schema, "allOf")
               THEN ResolveEntries(U, schema["allOf"], contextPkg, fuel)
               ELSE Ok(<<>>),
               IF Has(schema, "properties")
               THEN ResolveProps(U, schema["properties"], contextPkg, fuel)
               ELSE Ok(EmptySchema),
               IF Has(schema, "items")
               THEN resolveAllOfRefs(U, schema["items"], contextPkg, fuel - 1)
               ELSE Ok(EmptySchema),
               IF Has(schema, "additionalProperties")
               THEN resolveAllOfRefs(U, schema["additionalProperties"], contextPkg, fuel - 1)
               ELSE Ok(EmptySchema) >>)

RECURSIVE MergeEntries(_, _, _)
\* Embedding Flattener, the merge of one owner: every allOf entry that is a
\* materialized schema gives the owner its properties and the fields the
\* owner lacks; an entry that is still a reference stays in allOf.
MergeEntries(owner, allOf, kept) ==
    LET Merge(a) ==
            IF Len(a[2]) = 0
            THEN IF Len(a[3]) = 0 THEN a[1] ELSE With(a[1], "allOf", a[3])
            ELSE
            LET e == Head(a[2]) IN
            IF Has(e, "$ref") THEN MergeEntries(a[1], Tail(a[2]), Append(a[3], e))
            ELSE
            LET ownProps == IF Has(a[1], "properties") THEN a[1]["properties"] ELSE EmptySchema
                inProps  == IF Has(e, "properties") THEN e["properties"] ELSE EmptySchema
                props    == Strict([n \in (DOMAIN ownProps) \cup (DOMAIN inProps) |->
                                IF n \in DOMAIN ownProps THEN ownProps[n] ELSE inProps[n]])
                fields   == Strict([k \in ((DOMAIN a[1]) \cup (DOMAIN e)) \ {"allOf"} |->
                                IF k = "properties" THEN props
                                ELSE IF k \in DOMAIN a[1] THEN a[1][k] ELSE e[k]])
                nested   == IF Has(e, "allOf") THEN e["allOf"] ELSE <<>>
            IN  MergeEntries(fields, nested \o Tail(a[2]), a[3])
    IN  Let(Merge, <<owner, allOf, kept>>)

RECURSIVE FlattenEmbedded(_)
\* crd.FlattenEmbedded: the merge, at every level of the schema.
FlattenEmbedded(schema) ==
    LET Flat(inner) ==
            IF Has(inner, "allOf")
            THEN MergeEntries(Without(inner, {"allOf"}), inner["allOf"], <<>>)
            ELSE inner
        Below(s) ==
            Strict([k \in DOMAIN s |->
                IF k = "properties"
                THEN Strict([n \in DOMAIN s[k] |-> FlattenEmbedded(s[k][n])])
                ELSE IF k = "allOf"
                THEN Strict([i \in 1..Len(s[k]) |-> FlattenEmbedded(s[k][i])])
                ELSE IF k \in {"items", "additionalProperties"}
                THEN FlattenEmbedded(s[k])
                ELSE s[k]])
    IN  Let(Flat, Let(Below, schema))

\* Lines 244-253: the reference of one schema, rewritten.
ConvertOneRef(schema, contextPkg) ==
    IF ~HasRef(schema) THEN schema
    ELSE LET Rewrite(parts) ==
                 IF parts.err THEN schema
                 ELSE LET pkgPath == IF parts.pkgPath = <<>> /\ contextPkg # NilPkg
                                     THEN contextPkg ELSE parts.pkgPath
                      IN  With(schema, "$ref",
                               <<refPrefix>>
                                   \o ToRESTFriendlyName(pkgPath \o <<".">> \o parts.typeName))
         IN  Let(Rewrite, RefParts(schema["$ref"]))

RECURSIVE convertRefs(_, _)
\* convertRefs
convertRefs(schema, contextPkg) ==
    LET Below(s) ==
            Strict([k \in DOMAIN s |->
                IF k = "properties"
                THEN Strict([n \in DOMAIN s[k] |-> convertRefs(s[k][n], contextPkg)])
                ELSE IF k = "allOf"
                THEN Strict([i \in 1..Len(s[k]) |-> convertRefs(s[k][i], contextPkg)])
                ELSE IF k \in {"items", "additionalProperties"}
                THEN convertRefs(s[k], contextPkg)
                ELSE s[k]])
    IN  Let(Below, ConvertOneRef(schema, contextPkg))

RECURSIVE JSONRoundTrip(_)
\* json.Marshal then json.Unmarshal into map[string]any: the omitempty
\* fields of JSONSchemaProps that are empty are not written.
JSONRoundTrip(schema) ==
    LET Written(s) ==
            Without(s, {k \in DOMAIN s :
                           \/ k = "nullable" /\ s[k] = FALSE
                           \/ k = "properties" /\ DOMAIN s[k] = {}
                           \/ k \in {"allOf", "anyOf", "oneOf"} /\ Len(s[k]) = 0})
        Below(s) ==
            Strict([k \in DOMAIN s |->
                IF k = "properties"
                THEN Strict([n \in DOMAIN s[k] |-> JSONRoundTrip(s[k][n])])
                ELSE IF k = "allOf"
                THEN Strict([i \in 1..Len(s[k]) |-> JSONRoundTrip(s[k][i])])
                ELSE IF k \in {"items", "additionalProperties"}
                THEN JSONRoundTrip(s[k])
                ELSE s[k]])
    IN  Let(Below, Let(Written, schema))

\* Lines 320-328: the fields deleted from one map.
StripFieldsElseIf(schema) ==
    IF Has(schema, "$ref") /\ (Has(schema, "type") \/ Has(schema, "format"))
    THEN Without(schema, {"type", "format"})
    ELSE IF Has(schema, "nullable") THEN Without(schema, {"nullable"})
    ELSE Without(schema, {"anyOf", "oneOf", "not"})

StripFieldsKeepType(schema) ==
    Without(schema, {"nullable", "anyOf", "oneOf", "not"})

StripFields(schema) ==
    Without(schema,
            (IF Has(schema, "$ref") THEN {"type", "format"} ELSE {})
                \cup {"nullable", "anyOf", "oneOf", "not"})

RECURSIVE sanitizeForOpenAPIV2(_)
\* sanitizeForOpenAPIV2
sanitizeForOpenAPIV2(schema) ==
    LET Below(s) ==
            Strict([k \in DOMAIN s |->
                IF k = "properties"
                THEN Strict([n \in DOMAIN s[k] |-> sanitizeForOpenAPIV2(s[k][n])])
                ELSE IF k = "allOf"
                THEN Strict([i \in 1..Len(s[k]) |-> sanitizeForOpenAPIV2(s[k][i])])
                ELSE IF k \in {"items", "additionalProperties"}
                THEN sanitizeForOpenAPIV2(s[k])
                ELSE s[k]])
    IN  Let(Below, StripFields(schema))

\* strings.TrimPrefix(ref, refPrefix)
TrimPrefix(ref) == IF Len(ref) > 0 /\ ref[1] = refPrefix THEN Tail(ref) ELSE ref

\* Lines 300-307: the copy of the target with the extras of the original.
MergeExtrasTargetWins(targetMap, defMap) ==
    Strict([k \in (DOMAIN targetMap) \cup ((DOMAIN defMap) \ {"$ref"}) |->
               IF k \in DOMAIN targetMap THEN targetMap[k] ELSE defMap[k]])

MergeExtras(targetMap, defMap) ==
    Strict([k \in (DOMAIN targetMap) \cup ((DOMAIN defMap) \ {"$ref"}) |->
               IF k \in (DOMAIN defMap) \ {"$ref"} THEN defMap[k] ELSE targetMap[k]])

\* Lines 279-308: one iteration of the loop of resolveRefDefinitions.
ResolveOne(defs, key) ==
    LET defMap == defs[key] IN
    IF ~Has(defMap, "$ref") THEN defs
    ELSE LET targetKey == TrimPrefix(defMap["$ref"]) IN
         IF targetKey \notin DOMAIN defs THEN defs
         ELSE With(defs, key, MergeExtras(defs[targetKey], defMap))

----------------------------------------------------------------------------
\* buildOpenAPISchema

PkgA == <<"x", ".", "io", "/", "a", "/", "v1">>
PkgB == <<"x", ".", "io", "/", "a", ".", "v1">>
PkgC == <<"x", ".", "io", "/", "c">>

\* root, the package the document is generated for, and gv.
RootPkg == PkgA
Group == "a.x.io"
Version == "v1"

GVKField == "x-kubernetes-group-version-kind"
MapType == "x-kubernetes-map-type"

\* ident.Package == root && crdTypeSet[ident.Name]
IsRoot(ident, roots) == ident.pkg = RootPkg /\ ident.name \in roots

\* Lines 127-135
AddGVK(schemaMap, ident, roots) ==
    IF IsRoot(ident, roots)
    THEN With(schemaMap, GVKField,
              <<[group |-> Group, version |-> Version, kind |-> ident.name]>>)
    ELSE schemaMap

\* Lines 95-135 for one ident of p.Schemata: the key and the definition stored
\* under it (raw: the definition had the sanitizer of line 118 not run).
AssembleNoSanitize(U, ident, roots) ==
    LET Stored(json) ==
            [err |-> "none", key |-> DefinitionKey(ident),
             schemaMap |-> AddGVK(json, ident, roots),
             raw |-> AddGVK(json, ident, roots)]
        Convert(resolved) ==
            IF resolved.err # "none"
            THEN [err |-> resolved.err, key |-> <<>>,
                  schemaMap |-> EmptySchema, raw |-> EmptySchema]
            ELSE Let(Stored, JSONRoundTrip(convertRefs(FlattenEmbedded(resolved.schema),
                                                       ident.pkg)))
    IN  Let(Convert, resolveAllOfRefs(U, U[ident], ident.pkg, MaxStack))

AssembleDefinition(U, ident, roots) ==
    LET Stored(json) ==
            [err |-> "none", key |-> DefinitionKey(ident),
             schemaMap |-> AddGVK(sanitizeForOpenAPIV2(json), ident, roots),
             raw |-> AddGVK(json, ident, roots)]
        Convert(resolved) ==
            IF resolved.err # "none"
            THEN [err |-> resolved.err, key |-> <<>>,
                  schemaMap |-> EmptySchema, raw |-> EmptySchema]
            ELSE Let(Stored, JSONRoundTrip(convertRefs(FlattenEmbedded(resolved.schema),
                                                       ident.pkg)))
    IN  Let(Convert, resolveAllOfRefs(U, U[ident], ident.pkg, MaxStack))

\* The schemas the parser writes for a type.  A reference to a type of the
\* declaring type's own package carries no package path.
Ident(pkg, name) == [pkg |-> pkg, name |-> <<name>>]

RefTo(from, to) == TypeRefLink(IF to.pkg = from.pkg THEN <<>> ELSE to.pkg, to.name)

Ref(r) == "$ref" :> r

Leaf == [type |-> "string", nullable |-> TRUE]

Obj == [type |-> "object", properties |-> [p |-> Leaf]] @@ (MapType :> "atomic")

Alias(r) == Ref(r)

AliasX(r) == Ref(r) @@ [type |-> "object", format |-> "int64"] @@ (MapType :> "granular")

Struct(r) ==
    [type |-> "object",
     properties |-> [f |-> Ref(r),
                     g |-> [type |-> "array", items |-> Ref(r) @@ [type |-> "object"]]]]

Embed(r) ==
    [type |-> "object", allOf |-> <<Ref(r)>>, properties |-> [own |-> [type |-> "integer"]]]

Dangling == TypeRefLink(<<>>, <<"Missing">>)
Malformed == <<"Missing">>

\* The schemas drawn for the first, second and third type of a universe.
SchemasFor(ids, n) ==
    LET i == ids[n] IN
    IF n = 1
    THEN {Leaf, Obj, Alias(RefTo(i, ids[2])), AliasX(RefTo(i, ids[2])),
          Struct(RefTo(i, ids[2])), Embed(RefTo(i, ids[2])), Embed(RefTo(i, i)),
          Embed(Dangling), Embed(Malformed)}
    ELSE IF n = 2
    THEN {Leaf, Obj, Alias(RefTo(i, ids[3])), AliasX(RefTo(i, ids[3])),
          Struct(RefTo(i, ids[3])), Struct(RefTo(i, i)), Embed(RefTo(i, ids[3])),
          Embed(RefTo(i, ids[1]))}
    ELSE {Leaf, Obj, Struct(RefTo(i, i)), Alias(Dangling)}

UniversesOver(ids) ==
    {(ids[1] :> x) @@ (ids[2] :> y) @@ (ids[3] :> z) :
        x \in SchemasFor(ids, 1), y \in SchemasFor(ids, 2), z \in SchemasFor(ids, 3)}

IdentSets ==
    { <<Ident(PkgA, "A"), Ident(PkgA, "B"), Ident(PkgA, "C")>>,
      <<Ident(PkgA, "A"), Ident(PkgC, "B"), Ident(PkgC, "C")>>,
      <<Ident(PkgA, "A"), Ident(PkgB, "A"), Ident(PkgA, "B")>>,
      <<Ident(PkgA, "A"), Ident(PkgA, "B"), Ident(PkgC, "B")>> }

Universes == UNION {UniversesOver(ids) : ids \in IdentSets}

\* The root types are types of the root package; each has a schema.
RootNames == {<<"A">>, <<"B">>}

RootChoices(U) ==
    SUBSET {i.name : i \in {x \in DOMAIN U : x.pkg = RootPkg /\ x.name \in RootNames}}

Idle ==
    /\ start = Ident(PkgA, "A")
    /\ stack = <<>>
    /\ result = EmptySchema
    /\ cyclic = FALSE
    /\ sIn = EmptySchema
    /\ sOut = EmptySchema
    /\ sOut2 = EmptySchema

Init ==
    /\ pc = "collect"
    /\ Schemata \in Universes
    /\ crdTypeSet \in RootChoices(Schemata)
    /\ pending = DOMAIN Schemata
    /\ definitions = EmptySchema
    /\ toVisit = {}
    /\ assembled = EmptySchema
    /\ rawDefs = EmptySchema
    /\ visitLog = <<>>
    /\ writers = EmptySchema
    /\ Idle

machines == <<start, stack, result, cyclic, sIn, sOut, sOut2>>

\* Lines 80-82: no root type, no document.
CollectRoots ==
    /\ pc = "collect"
    /\ pc' = IF crdTypeSet = {} THEN "empty" ELSE "assemble"
    /\ UNCHANGED <<Schemata, crdTypeSet, pending, definitions, toVisit, assembled,
                   rawDefs, visitLog, writers, machines>>

\* Lines 94-138, one iteration that stores a definition.
AssembleStep ==
    /\ pc = "assemble"
    /\ \E ident \in pending : \E d \in {AssembleDefinition(Schemata, ident, crdTypeSet)} :
           /\ d.err = "none"
           /\ definitions' = With(definitions, d.key, d.schemaMap)
           /\ rawDefs' = With(rawDefs, d.key, d.raw)
           /\ writers' = With(writers, d.key,
                              (IF Has(writers, d.key) THEN writers[d.key] ELSE {})
                                  \cup {ident})
           /\ pending' = pending \ {ident}
    /\ UNCHANGED <<pc, Schemata, crdTypeSet, toVisit, assembled, visitLog, machines>>

\* Lines 100-102: resolveAllOfRefs fails (or overflows the stack) and the
\* generation ends without a document.
AssembleFails ==
    /\ pc = "assemble"
    /\ \E ident \in pending : \E d \in {AssembleDefinition(Schemata, ident, crdTypeSet)} :
           /\ d.err # "none"
           /\ pc' = IF d.err = "exhausted" THEN "crashed" ELSE "failed"
    /\ UNCHANGED <<Schemata, crdTypeSet, pending, definitions, toVisit, assembled,
                   rawDefs, visitLog, writers, machines>>

\* Line 140: resolveRefDefinitions starts its range over the map.
AssembleDone ==
    /\ pc = "assemble"
    /\ pending = {}
    /\ pc' = "resolve"
    /\ toVisit' = DOMAIN definitions
    /\ assembled' = definitions
    /\ UNCHANGED <<Schemata, crdTypeSet, pending, definitions, rawDefs, visitLog,
                   writers, machines>>

\* Lines 278-309, one iteration; the range visits the keys in any order.
ResolveStep ==
    /\ pc = "resolve"
    /\ \E key \in toVisit :
           /\ definitions' = ResolveOne(definitions, key)
           /\ toVisit' = toVisit \ {key}
           /\ visitLog' = Append(visitLog, key)
    /\ UNCHANGED <<pc, Schemata, crdTypeSet, pending, assembled, rawDefs, writers,
                   machines>>

\* Lines 142-168: the document is marshalled and written.
WriteDocument ==
    /\ pc = "resolve"
    /\ toVisit = {}
    /\ pc' = "done"
    /\ UNCHANGED <<Schemata, crdTypeSet, pending, definitions, toVisit, assembled,
                   rawDefs, visitLog, writers, machines>>

\* Lines 157-166: the temporary file cannot be created or written.
WriteFails ==
    /\ pc = "resolve"
    /\ toVisit = {}
    /\ pc' = "failed"
    /\ UNCHANGED <<Schemata, crdTypeSet, pending, definitions, toVisit, assembled,
                   rawDefs, visitLog, writers, machines>>

Next ==
    \/ CollectRoots
    \/ AssembleStep
    \/ AssembleFails
    \/ AssembleDone
    \/ ResolveStep
    \/ WriteDocument
    \/ WriteFails

Spec == Init /\ [][Next]_vars

----------------------------------------------------------------------------
\* Properties of buildOpenAPISchema

\* The schemas directly nested in a schema.
NestedOf(f) ==
    (IF Has(f, "properties") THEN {f["properties"][n] : n \in DOMAIN f["properties"]} ELSE {})
    \cup (IF Has(f, "allOf") THEN {f["allOf"][n] : n \in 1..Len(f["allOf"])} ELSE {})
    \cup (IF Has(f, "items") THEN {f["items"]} ELSE {})
    \cup (IF Has(f, "additionalProperties") THEN {f["additionalProperties"]} ELSE {})

RECURSIVE RefsIn(_)
\* Every reference of a schema, at any depth.
RefsIn(f) ==
    (IF Has(f, "$ref") THEN {f["$ref"]} ELSE {}) \cup UNION {RefsIn(g) : g \in NestedOf(f)}

RECURSIVE Clean(_)
\* A schema swagger 2.0 can hold: none of the four fields anywhere, and
\* neither type nor format beside a reference.
Clean(f) ==
    /\ (DOMAIN f) \cap {"nullable", "anyOf", "oneOf", "not"} = {}
    /\ Has(f, "$ref") => (DOMAIN f) \cap {"type", "format"} = {}
    /\ \A g \in NestedOf(f) : Clean(g)

\* Two types of the universe share a definition key.
Collision ==
    \E i, j \in DOMAIN Schemata : i # j /\ DefinitionKey(i) = DefinitionKey(j)

\* The type a reference written in a type of package pkg designates.
Designates(r, pkg) ==
    LET parts == RefParts(r) IN
    [pkg |-> IF parts.pkgPath = <<>> THEN pkg ELSE parts.pkgPath, name |-> parts.typeName]

WellFormed(U) ==
    \A i \in DOMAIN U : \A r \in RefsIn(U[i]) :
        ~RefParts(r).err /\ Designates(r, i.pkg) \in DOMAIN U

\* C1: when two types share a key the generation fails, and no document ever
\* holds a definition stored over that of another type.
C1_KeyCollisionIsFatal ==
    pc = "done" =>
        /\ ~Collision
        /\ \A k \in DOMAIN writers : Cardinality(writers[k]) = 1

\* C2: in the final document a definition carries the group/version/kind
\* block exactly when its type is a root.
C2_GVKExactlyOnRoots ==
    (pc = "done" /\ ~Collision) =>
        \A k \in DOMAIN definitions :
            Has(definitions[k], GVKField)
                <=> (\E i \in writers[k] : i.pkg = RootPkg /\ i.name \in crdTypeSet)

RECURSIVE AllOfRefs(_)
\* The references of the allOf entries of a schema, at any depth below it
\* (an entry that is a reference is not looked into).
AllOfRefs(f) ==
    LET entries == IF Has(f, "allOf") THEN {f["allOf"][n] : n \in 1..Len(f["allOf"])} ELSE {}
    IN  {e["$ref"] : e \in {x \in entries : HasRef(x)}}
        \cup UNION {AllOfRefs(g) : g \in {x \in NestedOf(f) : x \notin entries \/ ~HasRef(x)}}

\* The types whose schema reaches the definition of type i: i, the types it
\* embeds and the type it is an alias of, transitively.
Inherits(U, S) ==
    S \cup UNION {
        {Designates(r, j.pkg) :
            r \in AllOfRefs(U[j]) \cup (IF Has(U[j], "$ref") THEN {U[j]["$ref"]} ELSE {})}
        : j \in S}

SourcesOf(U, i) == Inherits(U, Inherits(U, Inherits(U, {i}))) \cap DOMAIN U

\* The references the definition of type i may hold: for each reference
\* declared by one of its sources, the key of the type it designates there.
ExpectedRefs(U, i) ==
    UNION { {<<refPrefix>> \o DefinitionKey(Designates(r, j.pkg)) : r \in RefsIn(U[j])}
            : j \in SourcesOf(U, i) }

\* C3: in a well-formed universe every reference of the final document is the
\* key of the type it designated where it was declared, and the key exists.
C3_RefsNameDesignatedType ==
    (pc = "done" /\ WellFormed(Schemata) /\ ~Collision) =>
        \A k \in DOMAIN definitions : \A r \in RefsIn(definitions[k]) :
            /\ TrimPrefix(r) \in DOMAIN definitions
            /\ \E i \in writers[k] : r \in ExpectedRefs(Schemata, i)

Visited(k) == \E n \in 1..Len(visitLog) : visitLog[n] = k

PosOf(k) == CHOOSE n \in 1..Len(visitLog) : visitLog[n] = k

\* The body of definition t as it was when definition k was visited.
BodyAtVisit(k, t) ==
    IF t # k /\ Visited(t) /\ PosOf(t) < PosOf(k) THEN definitions[t] ELSE assembled[t]

\* C7: a visited definition that was a reference to a key of the map is the
\* body of the target (as the map held it then) with the siblings of the
\* reference laid over it; every other definition is as it was.
C7_AliasIsTargetWithSiblings ==
    pc \in {"resolve", "done"} =>
        \A k \in DOMAIN assembled :
            LET orig == assembled[k] IN
            IF Visited(k) /\ Has(orig, "$ref") /\ TrimPrefix(orig["$ref"]) \in DOMAIN assembled
            THEN definitions[k]
                     = Without(orig, {"$ref"}) @@ BodyAtVisit(k, TrimPrefix(orig["$ref"]))
            ELSE definitions[k] = orig

\* An alias with its own map-type marker is resolved over a target that
\* carries another one, beside an alias whose target is not in the map.
C7_Witness ==
    /\ pc = "done"
    /\ \E k \in DOMAIN assembled :
           /\ Has(assembled[k], "$ref") /\ Has(assembled[k], MapType)
           /\ TrimPrefix(assembled[k]["$ref"]) \in DOMAIN assembled
           /\ Has(assembled[TrimPrefix(assembled[k]["$ref"])], MapType)
           /\ assembled[TrimPrefix(assembled[k]["$ref"])][MapType] # assembled[k][MapType]
           /\ Has(definitions[k], "properties")
           /\ definitions[k][MapType] = assembled[k][MapType]
    /\ \E k \in DOMAIN assembled :
           /\ Has(assembled[k], "$ref")
           /\ TrimPrefix(assembled[k]["$ref"]) \notin DOMAIN assembled
           /\ definitions[k] = assembled[k]

RECURSIVE ResolveInOrder(_, _)
\* resolveRefDefinitions over defs, the keys visited in the order of log.
ResolveInOrder(defs, log) ==
    IF Len(log) = 0 THEN defs
    ELSE ResolveInOrder(ResolveOne(defs, Head(log)), Tail(log))

\* C8 as stated: the sanitizer runs last, so the final document is the
\* sanitized alias-resolved map of unsanitized definitions.
C8_SanitizerRunsLast ==
    pc = "done" =>
        definitions = [k \in DOMAIN rawDefs |->
                          sanitizeForOpenAPIV2(ResolveInOrder(rawDefs, visitLog)[k])]

\* C8 amended: every definition is sanitized before it enters the map, hence
\* before the alias resolver; the final document is the alias resolution of
\* the sanitized definitions and still holds nothing swagger 2.0 forbids.
C8_SanitizedBeforeAliasResolver ==
    /\ \A k \in DOMAIN definitions : Clean(definitions[k])
    /\ pc = "done" => definitions = ResolveInOrder(assembled, visitLog)

\* An alias whose reference had type and format beside it ends with the type
\* of its target and no format.
C8_Witness ==
    /\ pc = "done"
    /\ \E k \in DOMAIN rawDefs :
           /\ Has(rawDefs[k], "$ref") /\ Has(rawDefs[k], "type") /\ Has(rawDefs[k], "format")
           /\ TrimPrefix(rawDefs[k]["$ref"]) \in DOMAIN rawDefs
           /\ ~Has(definitions[k], "$ref")
           /\ ~Has(definitions[k], "format")
           /\ definitions[k]["type"] # rawDefs[k]["type"]

\* C9: for a chain a -> b -> c of aliases whose end c is no reference, a and
\* b both end as the body of c under their own siblings, in whatever order
\* the map is visited.
C9_OrderIndependent ==
    pc = "done" =>
        \A a, b, c \in DOMAIN assembled :
            ( /\ a # b /\ b # c /\ a # c
              /\ Has(assembled[a], "$ref") /\ TrimPrefix(assembled[a]["$ref"]) = b
              /\ Has(assembled[b], "$ref") /\ TrimPrefix(assembled[b]["$ref"]) = c
              /\ ~Has(assembled[c], "$ref") )
            => /\ definitions[b] = Without(assembled[b], {"$ref"}) @@ assembled[c]
               /\ ~Has(definitions[a], "$ref")
               /\ \A f \in (DOMAIN definitions[a]) \ (DOMAIN assembled[b]) :
                      definitions[a][f] = (Without(assembled[a], {"$ref"}) @@ assembled[c])[f]

----------------------------------------------------------------------------
\* resolveAllOfRefs, call by call

\* A pending visit of the walk: a schema, the package its references are
\* relative to, and whether it is an entry of an allOf slice.
Visit(schema, pkg, entry) == [schema |-> schema, pkg |-> pkg, entry |-> entry]

\* The walk of one call follows the references of every nested schema.
VisitsFollowAllRefs(schema, contextPkg) ==
    (IF Has(schema, "allOf")
     THEN Strict([i \in 1..Len(schema["allOf"]) |->
                     Visit(schema["allOf"][i], contextPkg, TRUE)])
     ELSE <<>>)
    \o (IF Has(schema, "properties")
        THEN LET Each(ks) ==
                     Strict([i \in 1..Len(ks) |->
                                Visit(schema["properties"][ks[i]], contextPkg, TRUE)])
             IN  Let(Each, KeyOrder(DOMAIN schema["properties"]))
        ELSE <<>>)
    \o (IF Has(schema, "items") THEN <<Visit(schema["items"], contextPkg, TRUE)>> ELSE <<>>)
    \o (IF Has(schema, "additionalProperties")
        THEN <<Visit(schema["additionalProperties"], contextPkg, TRUE)>> ELSE <<>>)

\* Lines 183-232: the visits one call of resolveAllOfRefs makes, in order.
Visits(schema, contextPkg) ==
    (IF Has(schema, "allOf")
     THEN Strict([i \in 1..Len(schema["allOf"]) |->
                     Visit(schema["allOf"][i], contextPkg, TRUE)])
     ELSE <<>>)
    \o (IF Has(schema, "properties")
        THEN LET Each(ks) ==
                     Strict([i \in 1..Len(ks) |->
                                Visit(schema["properties"][ks[i]], contextPkg, FALSE)])
             IN  Let(Each, KeyOrder(DOMAIN schema["properties"]))
        ELSE <<>>)
    \o (IF Has(schema, "items") THEN <<Visit(schema["items"], contextPkg, FALSE)>> ELSE <<>>)
    \o (IF Has(schema, "additionalProperties")
        THEN <<Visit(schema["additionalProperties"], contextPkg, FALSE)>> ELSE <<>>)

\* The types type i embeds: the targets of the allOf references of its schema.
Embeds(U, i) == {Designates(r, i.pkg) : r \in AllOfRefs(U[i])} \cap DOMAIN U

EmbedsOfAll(U, S) == UNION {Embeds(U, i) : i \in S}

\* The types reached from the types S over one or more embeddings.
EmbeddedBelow(U, S) ==
    LET one   == EmbedsOfAll(U, S)
        two   == one \cup EmbedsOfAll(U, one)
        three == two \cup EmbedsOfAll(U, two)
    IN  three \cup EmbedsOfAll(U, three)

\* A cycle of embeddings can be reached from type i.
EmbeddingCycleFrom(U, i) ==
    \E t \in {i} \cup EmbeddedBelow(U, {i}) : t \in EmbeddedBelow(U, {t})

Top == stack[Len(stack)]

\* The next visit looks a reference up (lines 185-201).
LooksUp(v) == v.entry /\ HasRef(v.schema)

ReplaceTop(frame) == [stack EXCEPT ![Len(stack)] = frame]

pipeline == <<cyclic, crdTypeSet, pending, definitions, toVisit, assembled, rawDefs, visitLog,
              writers, sIn, sOut, sOut2>>

InitResolve ==
    /\ pc = "resolving"
    /\ Schemata \in Universes
    /\ start \in DOMAIN Schemata
    /\ stack = << <<Visit(Schemata[start], start.pkg, FALSE)>> >>
    /\ result = resolveAllOfRefs(Schemata, Schemata[start], start.pkg, MaxStack)
    /\ cyclic = EmbeddingCycleFrom(Schemata, start)
    /\ crdTypeSet = {}
    /\ pending = {}
    /\ definitions = EmptySchema
    /\ toVisit = {}
    /\ assembled = EmptySchema
    /\ rawDefs = EmptySchema
    /\ visitLog = <<>>
    /\ writers = EmptySchema
    /\ sIn = EmptySchema
    /\ sOut = EmptySchema
    /\ sOut2 = EmptySchema

\* Lines 204 and 210 (and the recursions of 218-229): the next call.
Call ==
    /\ pc = "resolving"
    /\ Len(stack) > 0 /\ Len(stack) <= MaxStack /\ Len(Top) > 0
    /\ \E v \in {Head(Top)} :
           IF LooksUp(v)
           THEN \E found \in {LookupEntry(Schemata, v.schema, v.pkg)} :
                    /\ found.err = "none"
                    /\ stack' = Append(ReplaceTop(Tail(Top)),
                                       Visits(Schemata[found.ident], found.ident.pkg))
           ELSE stack' = Append(ReplaceTop(Tail(Top)), Visits(v.schema, v.pkg))
    /\ UNCHANGED <<pc, Schemata, start, result, pipeline>>

\* Lines 188, 195, 200: the reference does not parse or names no schema.
LookupFails ==
    /\ pc = "resolving"
    /\ Len(stack) > 0 /\ Len(Top) > 0
    /\ LooksUp(Head(Top))
    /\ LookupEntry(Schemata, Head(Top).schema, Head(Top).pkg).err # "none"
    /\ pc' = "error"
    /\ UNCHANGED <<Schemata, start, stack, result, pipeline>>

\* Line 233: a call returns to its caller.
Return ==
    /\ pc = "resolving"
    /\ Len(stack) > 1 /\ Len(Top) = 0
    /\ stack' = SubSeq(stack, 1, Len(stack) - 1)
    /\ UNCHANGED <<pc, Schemata, start, result, pipeline>>

\* The outermost call returns nil.
Finish ==
    /\ pc = "resolving"
    /\ stack = << <<>> >>
    /\ pc' = "resolved"
    /\ stack' = <<>>
    /\ UNCHANGED <<Schemata, start, result, pipeline>>

\* The next call does not fit the stack: the process dies.
Overflow ==
    /\ pc = "resolving"
    /\ Len(stack) = MaxStack + 1 /\ Len(Top) > 0
    /\ LooksUp(Head(Top)) =>
           LookupEntry(Schemata, Head(Top).schema, Head(Top).pkg).err = "none"
    /\ pc' = "exhausted"
    /\ UNCHANGED <<Schemata, start, stack, result, pipeline>>

NextResolve ==
    \/ Call
    \/ LookupFails
    \/ Return
    \/ Finish
    \/ Overflow

\* The calls are made by one goroutine that runs until it returns or dies.
SpecResolve == InitResolve /\ [][NextResolve]_vars /\ WF_vars(NextResolve)

\* The call-by-call walk and the function agree on how the call ends.
WalkAgrees ==
    /\ pc = "resolved" => result.err = "none"
    /\ pc = "error" => result.err = "error"
    /\ pc = "exhausted" => result.err = "exhausted"

\* Every allOf reference met from type i parses and names a schema.
AllOfRefsResolve(U, i) ==
    \A t \in {i} \cup EmbeddedBelow(U, {i}) : \A r \in AllOfRefs(U[t]) :
        ~RefParts(r).err /\ Designates(r, t.pkg) \in DOMAIN U

RECURSIVE NoRefEntry(_)
\* No allOf entry, at any depth, carries a reference.
NoRefEntry(f) ==
    /\ Has(f, "allOf") => \A n \in 1..Len(f["allOf"]) : ~HasRef(f["allOf"][n])
    /\ \A g \in NestedOf(f) : NoRefEntry(g)

\* C4: over an acyclic embedding graph whose allOf references all resolve,
\* resolveAllOfRefs returns without error and leaves no allOf entry, at any
\* depth, that carries a reference.
C4_NoAllOfReferenceLeft ==
    ( /\ pc \notin {"resolving"}
      /\ ~cyclic
      /\ AllOfRefsResolve(Schemata, start) )
    => pc = "resolved" /\ NoRefEntry(result.schema)

\* A reference in properties or items designates the type that declares it.
PropertyCycle(U, i) ==
    \E r \in RefsIn(U[i]) \ AllOfRefs(U[i]) : ~Has(U[i], "$ref") /\ Designates(r, i.pkg) = i

\* C10: resolveAllOfRefs ends (nil or an error) unless a cycle of embeddings
\* is reachable from the schema it resolves; it outgrows the stack only then.
C10_EndsUnlessEmbeddingCycle ==
    /\ ~cyclic => <>(pc \in {"resolved", "error"})
    /\ [](pc = "exhausted" => cyclic)

\* A two-level embedding whose innermost type refers to itself in its
\* properties has been resolved.
C10_Witness ==
    /\ pc = "resolved"
    /\ \E b \in Embeds(Schemata, start) : \E c \in Embeds(Schemata, b) :
           /\ c # b /\ b # start /\ c # start
           /\ PropertyCycle(Schemata, c)
    /\ NoRefEntry(result.schema)

----------------------------------------------------------------------------
\* sanitizeForOpenAPIV2, on its own

OptionalFields ==
    ("$ref" :> <<refPrefix, "io", ".", "x", ".", "T">>)
    @@ [type |-> "object", format |-> "int64", nullable |-> TRUE,
        oneOf |-> <<[type |-> "string"]>>, anyOf |-> <<[type |-> "string"]>>,
        not |-> [type |-> "null"]]
    @@ (MapType :> "atomic")

Pick(ks) == [k \in ks |-> OptionalFields[k]]

Leaves == {Pick(ks) : ks \in SUBSET DOMAIN OptionalFields}

SmallLeaves == {Pick(ks) : ks \in SUBSET {"$ref", "type", "format", "nullable", "oneOf", MapType}}

Tops == {Pick(ks) : ks \in SUBSET {"$ref", "type", "nullable", MapType}}

Holders(child) ==
    {[properties |-> [a |-> child]], [items |-> child], [additionalProperties |-> child],
     [allOf |-> <<child>>], [properties |-> [a |-> [items |-> child], b |-> child]]}

SanitizeInputs ==
    Leaves \cup {h @@ t : h \in UNION {Holders(c) : c \in SmallLeaves}, t \in Tops}

InitSanitize ==
    /\ pc = "sanitize"
    /\ sIn \in SanitizeInputs
    /\ sOut = EmptySchema
    /\ sOut2 = EmptySchema
    /\ Schemata = EmptySchema
    /\ crdTypeSet = {}
    /\ pending = {}
    /\ definitions = EmptySchema
    /\ toVisit = {}
    /\ assembled = EmptySchema
    /\ rawDefs = EmptySchema
    /\ visitLog = <<>>
    /\ writers = EmptySchema
    /\ start = Ident(PkgA, "A")
    /\ stack = <<>>
    /\ result = EmptySchema
    /\ cyclic = FALSE

others == <<Schemata, crdTypeSet, pending, definitions, toVisit, assembled, rawDefs,
            visitLog, writers, start, stack, result, cyclic>>

SanitizeOnce ==
    /\ pc = "sanitize"
    /\ sOut' = sanitizeForOpenAPIV2(sIn)
    /\ pc' = "sanitized"
    /\ UNCHANGED <<sIn, sOut2, others>>

SanitizeAgain ==
    /\ pc = "sanitized"
    /\ sOut2' = sanitizeForOpenAPIV2(sOut)
    /\ pc' = "resanitized"
    /\ UNCHANGED <<sIn, sOut, others>>

NextSanitize == SanitizeOnce \/ SanitizeAgain

SpecSanitize == InitSanitize /\ [][NextSanitize]_vars

RECURSIVE Kept(_, _)
\* out is in without the fields the sanitizer deletes: the four fields, and
\* type and format beside a reference; every other field is there with the
\* value it had, the nested schemas treated alike.
Kept(in, out) ==
    /\ DOMAIN out = (DOMAIN in) \ ({"nullable", "anyOf", "oneOf", "not"}
                                   \cup (IF Has(in, "$ref") THEN {"type", "format"} ELSE {}))
    /\ \A k \in DOMAIN out :
           IF k = "properties"
           THEN /\ DOMAIN out[k] = DOMAIN in[k]
                /\ \A n \in DOMAIN in[k] : Kept(in[k][n], out[k][n])
           ELSE IF k = "allOf"
           THEN /\ Len(out[k]) = Len(in[k])
                /\ \A n \in 1..Len(in[k]) : Kept(in[k][n], out[k][n])
           ELSE IF k \in {"items", "additionalProperties"}
           THEN Kept(in[k], out[k])
           ELSE out[k] = in[k]

\* C5: the sanitized definition holds none of nullable, anyOf, oneOf, not at
\* any depth, no type or format beside a reference, and every other field
\* with its value.
C5_SanitizerStripsOnlyForbidden ==
    pc \in {"sanitized", "resanitized"} => Clean(sOut) /\ Kept(sIn, sOut)

\* A definition with nullable, oneOf and a map-type marker, over a nested
\* reference that has a type beside it, has been sanitized.
C5_Witness ==
    /\ pc = "sanitized"
    /\ {"nullable", MapType} \subseteq DOMAIN sIn
    /\ \E g \in NestedOf(sIn) : {"$ref", "type", "oneOf", MapType} \subseteq DOMAIN g
    /\ sOut[MapType] = "atomic"
    /\ \E g \in NestedOf(sOut) : DOMAIN g = {"$ref", MapType}

\* C6: sanitizing a sanitized definition changes nothing.
C6_SanitizerIdempotent ==
    pc = "resanitized" => sOut2 = sOut

\* A definition the first call changed at two levels has been sanitized twice.
C6_Witness ==
    /\ pc = "resanitized"
    /\ DOMAIN sOut # DOMAIN sIn
    /\ \E g \in NestedOf(sIn) : g \notin NestedOf(sOut)
    /\ sOut2 = sOut

====
